---------------------------- MODULE Spec2Model ----------------------------
(***************************************************************************)
(* Model of streamlit_lease/backend_utils/file_handlers.py: the factory    *)
(* FileHandlerFactory.get_file_handler and the read_file methods of the    *)
(* four handlers PDFHandler, DocxHandler, TxtHandler and CSVFileHandler.   *)
(*                                                                         *)
(* A caller (a thread) makes a call in two steps, as the surrounding       *)
(* application does: get_file_handler(file_type), then read_file(file) on  *)
(* the handler it got.  Every caller owns one byte source at a time and    *)
(* may call again on the same, already used, source.                       *)
(*                                                                         *)
(* Text is a sequence of code points, bytes are numbers 0..255.  A value   *)
(* a call produces is a record [kind, val]: kind "str" (a Python str),     *)
(* "None" (Python's None), "raise" (the call ended by an exception that    *)
(* left read_file or get_file_handler) or "pending" (no value yet).        *)
(***************************************************************************)
EXTENDS Integers, Sequences, FiniteSets, TLC

\* ------------------------------------------------------------- bounds
\* Longest byte content of a plain-text / CSV byte source.
MaxBytes == 3
\* Most pages of a PDF document.
MaxPages == 3
\* Most paragraphs of a Word document.
MaxParas == 3

\* --------------------------------------------------------------- values
Str(s) == [kind |-> "str", val |-> s]
NoneValue == [kind |-> "None", val |-> <<>>]
Raised == [kind |-> "raise", val |-> <<>>]
Pending == [kind |-> "pending", val |-> <<>>]

SeqsUpTo(S, n) == UNION {[1..k -> S] : k \in 0..n}

\* ---------------------------------------------------------------- UTF-8
\* bytes.decode('utf-8'), strict: the result is [ok, val]; ok = FALSE is a
\* UnicodeDecodeError.  One to four bytes per code point; a continuation
\* byte is 0x80..0xBF; overlong forms (lead 0xC0, 0xC1, 0xE0 followed by a
\* byte below 0xA0, 0xF0 followed by a byte below 0x90), surrogates (0xED
\* followed by a byte above 0x9F) and values above U+10FFFF are rejected.
IsCont(b) == b >= 128 /\ b <= 191

RECURSIVE DecodeFrom(_, _, _)
DecodeFrom(b, i, acc) ==
    IF i > Len(b) THEN [ok |-> TRUE, val |-> acc]
    ELSE LET b1 == b[i] IN
      IF b1 < 128 THEN DecodeFrom(b, i + 1, Append(acc, b1))
      ELSE IF b1 >= 194 /\ b1 <= 223 THEN
        IF i + 1 <= Len(b) /\ IsCont(b[i + 1])
        THEN DecodeFrom(b, i + 2, Append(acc, (b1 - 192) * 64 + (b[i + 1] - 128)))
        ELSE [ok |-> FALSE, val |-> <<>>]
      ELSE IF b1 >= 224 /\ b1 <= 239 THEN
        IF /\ i + 2 <= Len(b)
           /\ IsCont(b[i + 1])
           /\ IsCont(b[i + 2])
           /\ (b1 = 224 => b[i + 1] >= 160)
           /\ (b1 = 237 => b[i + 1] <= 159)
        THEN DecodeFrom(b, i + 3, Append(acc, (b1 - 224) * 4096
                                   + (b[i + 1] - 128) * 64 + (b[i + 2] - 128)))
        ELSE [ok |-> FALSE, val |-> <<>>]
      ELSE IF b1 >= 240 /\ b1 <= 244 THEN
        IF /\ i + 3 <= Len(b)
           /\ IsCont(b[i + 1])
           /\ IsCont(b[i + 2])
           /\ IsCont(b[i + 3])
           /\ (b1 = 240 => b[i + 1] >= 144)
           /\ (b1 = 244 => b[i + 1] <= 143)
        THEN DecodeFrom(b, i + 4, Append(acc, (b1 - 240) * 262144
                                   + (b[i + 1] - 128) * 4096
                                   + (b[i + 2] - 128) * 64 + (b[i + 3] - 128)))
        ELSE [ok |-> FALSE, val |-> <<>>]
      ELSE [ok |-> FALSE, val |-> <<>>]

\* The wrong codec, latin-1: every byte is one character and nothing fails.
decode_latin1(b) == [ok |-> TRUE, val |-> b]

decode_utf8(b) == DecodeFrom(b, 1, <<>>)

\* ------------------------------------------------------------ the inputs
\* The content-type strings a caller may pass: the four the factory knows
\* and strings that differ from them in case, in whitespace or altogether.
PDF_TYPE == "application/pdf"
DOCX_TYPE == "application/vnd.openxmlformats-officedocument.wordprocessingml.document"
TXT_TYPE == "text/plain"
CSV_TYPE == "text/csv"
KnownTypes == {PDF_TYPE, DOCX_TYPE, TXT_TYPE, CSV_TYPE}
OtherTypes == {"Application/PDF", "text/csv ", "", "application/msword"}
FileTypes == KnownTypes \cup OtherTypes

\* Byte values of the modelled contents: "A"; the two-byte lead 0xC3; the
\* continuation bytes 0xA9, 0x82; the three-byte lead 0xE2; and 0xC0, a
\* byte no UTF-8 text holds (the lead of an overlong form).
ByteValues == {65, 195, 169, 226, 130, 192}
ByteSeqs == SeqsUpTo(ByteValues, MaxBytes)

\* What page.extract_text() gives for a page: a text, an empty text, None,
\* or an exception.
PageOutcomes == {Str(<<97>>), Str(<<98>>), Str(<<>>), NoneValue, Raised}
\* What paragraph.text gives: always a str, possibly empty.
ParaTexts == {Str(<<72>>), Str(<<119, 32>>), Str(<<>>)}

\* The content of a byte source.  fmt "raw": bytes, read by the two text
\* handlers.  fmt "pdf" / "docx": a document the parsing library accepts,
\* given by what the library extracts from it (its pages' outcomes, its
\* paragraphs' texts).  fmt "corrupt": a content neither library accepts.
\* The bytes of the last three are not represented, so they are handed
\* only to the handlers that parse.
RawContents == [fmt : {"raw"}, bytes : ByteSeqs, items : {<<>>}]
CorruptContent == [fmt |-> "corrupt", bytes |-> <<>>, items |-> <<>>]
EmptyContent == [fmt |-> "raw", bytes |-> <<>>, items |-> <<>>]
PdfContents == [fmt : {"pdf"}, bytes : {<<>>}, items : SeqsUpTo(PageOutcomes, MaxPages)]
DocxContents == [fmt : {"docx"}, bytes : {<<>>}, items : SeqsUpTo(ParaTexts, MaxParas)]
Contents == RawContents \cup PdfContents \cup DocxContents \cup {CorruptContent}

\* The calls a caller makes: the text handlers see raw bytes; the parsing
\* handlers see documents of either format and corrupt contents; an
\* unknown content type reaches no handler, so any content goes with it.
Compatible(file_type, content) ==
    IF file_type \in {TXT_TYPE, CSV_TYPE} THEN content.fmt = "raw"
    ELSE IF file_type \in {PDF_TYPE, DOCX_TYPE} THEN content.fmt # "raw"
    ELSE TRUE

\* A byte source: its content, the read position, and whether read()
\* works at all (a closed handle raises whenever it is read; its content
\* is never seen).
NewSource(content, readable) ==
    [content |-> content, pos |-> 0, readable |-> readable]

\* ------------------------------------------------------------- the state
\* The callers.  Under Spec one caller runs; under SpecConc all of them
\* run, interleaved step by step.
NumCallers == 2
Callers == 1..NumCallers

VARIABLES
    pc,       \* caller -> "idle", "select", "read_file", "pages", "except", "done"
    ftype,    \* caller -> the content-type string of the call
    source,   \* caller -> the caller's byte source
    start,    \* caller -> the source's position when the call began
    prev,     \* caller -> "fresh", or the handler of the caller's previous
              \*           call on the same source ("none": it got no handler)
    handler,  \* caller -> the handler get_file_handler returned, or "none"
    text,     \* caller -> PDFHandler.read_file's local `text`
    page_no,  \* caller -> the page PDFHandler.read_file's loop is at
    exc,      \* caller -> the exception raised in the call, or "none"
    out,      \* caller -> what the call has printed, in order
    reads,    \* caller -> how many times the call has called file.read()
    result    \* caller -> the value of the call

vars == <<pc, ftype, source, start, prev, handler, text, page_no, exc, out,
          reads, result>>

Init ==
    /\ pc = [t \in Callers |-> "idle"]
    /\ ftype = [t \in Callers |-> ""]
    /\ source = [t \in Callers |->
                   NewSource(EmptyContent, TRUE)]
    /\ start = [t \in Callers |-> 0]
    /\ prev = [t \in Callers |-> "fresh"]
    /\ handler = [t \in Callers |-> "none"]
    /\ text = [t \in Callers |-> <<>>]
    /\ page_no = [t \in Callers |-> 0]
    /\ exc = [t \in Callers |-> "none"]
    /\ out = [t \in Callers |-> <<>>]
    /\ reads = [t \in Callers |-> 0]
    /\ result = [t \in Callers |-> Pending]

\* The locals of a call as it begins.
BeginCall(t, file_type) ==
    /\ pc' = [pc EXCEPT ![t] = "select"]
    /\ ftype' = [ftype EXCEPT ![t] = file_type]
    /\ handler' = [handler EXCEPT ![t] = "none"]
    /\ text' = [text EXCEPT ![t] = <<>>]
    /\ page_no' = [page_no EXCEPT ![t] = 0]
    /\ exc' = [exc EXCEPT ![t] = "none"]
    /\ out' = [out EXCEPT ![t] = <<>>]
    /\ reads' = [reads EXCEPT ![t] = 0]
    /\ result' = [result EXCEPT ![t] = Pending]

\* A caller takes a new byte source, positioned at its start, and a
\* content-type string, and begins a call.
Call(t, types, contents) ==
    /\ pc[t] = "idle"
    /\ \E file_type \in types, content \in contents, readable \in BOOLEAN :
          /\ Compatible(file_type, content)
          /\ ~readable => content \in {EmptyContent, CorruptContent}
          /\ source' = [source EXCEPT ![t] = NewSource(content, readable)]
          /\ BeginCall(t, file_type)
    /\ start' = [start EXCEPT ![t] = 0]
    /\ prev' = [prev EXCEPT ![t] = "fresh"]

\* A caller begins another call on the byte source it already used.
Recall(t, types) ==
    /\ pc[t] = "done"
    /\ \E file_type \in types :
          /\ Compatible(file_type, source[t].content)
          /\ BeginCall(t, file_type)
    /\ start' = [start EXCEPT ![t] = source[t].pos]
    /\ prev' = [prev EXCEPT ![t] = handler[t]]
    /\ UNCHANGED source

\* The caller is done with its byte source and drops it, with the value
\* of its last call.
Release(t) ==
    /\ pc[t] = "done"
    /\ pc' = [pc EXCEPT ![t] = "idle"]
    /\ ftype' = [ftype EXCEPT ![t] = ""]
    /\ source' = [source EXCEPT ![t] =
                    NewSource(EmptyContent, TRUE)]
    /\ start' = [start EXCEPT ![t] = 0]
    /\ prev' = [prev EXCEPT ![t] = "fresh"]
    /\ handler' = [handler EXCEPT ![t] = "none"]
    /\ text' = [text EXCEPT ![t] = <<>>]
    /\ page_no' = [page_no EXCEPT ![t] = 0]
    /\ exc' = [exc EXCEPT ![t] = "none"]
    /\ out' = [out EXCEPT ![t] = <<>>]
    /\ reads' = [reads EXCEPT ![t] = 0]
    /\ result' = [result EXCEPT ![t] = Pending]

\* ------------------------------------------------- FileHandlerFactory
\* A variant of the chain that forgets the case of the PDF type.
get_file_handler_anycase(file_type) ==
    IF file_type = "application/pdf" \/ file_type = "Application/PDF"
      THEN "PDFHandler"
    ELSE IF file_type = "application/vnd.openxmlformats-officedocument.wordprocessingml.document"
      THEN "DocxHandler"
    ELSE IF file_type = "text/plain" THEN "TxtHandler"
    ELSE IF file_type = "text/csv" THEN "CSVFileHandler"
    ELSE "ValueError"

\* get_file_handler: the handler's class, or "ValueError" when it raises.
get_file_handler(file_type) ==
    IF file_type = "application/pdf" THEN "PDFHandler"
    ELSE IF file_type = "application/vnd.openxmlformats-officedocument.wordprocessingml.document"
      THEN "DocxHandler"
    ELSE IF file_type = "text/plain" THEN "TxtHandler"
    ELSE IF file_type = "text/csv" THEN "CSVFileHandler"
    ELSE "ValueError"

\* The call of the factory: it reads its argument only.
GetFileHandler(t) ==
    /\ pc[t] = "select"
    /\ LET h == get_file_handler(ftype[t]) IN
         IF h = "ValueError"
         THEN /\ exc' = [exc EXCEPT ![t] = "ValueError"]
              /\ result' = [result EXCEPT ![t] = Raised]
              /\ pc' = [pc EXCEPT ![t] = "done"]
              /\ UNCHANGED handler
         ELSE /\ handler' = [handler EXCEPT ![t] = h]
              /\ pc' = [pc EXCEPT ![t] = "read_file"]
              /\ UNCHANGED <<exc, result>>
    /\ UNCHANGED <<ftype, source, start, prev, text, page_no, out, reads>>

\* --------------------------------------------------------------- file.read()
\* Where file.read() starts: at the source's position; it never seeks.
ReadFromStart(src) == 0

ReadFrom(src) == src.pos

\* The bytes file.read() returns: all from the position to the end.
ReadAll(src) ==
    SubSeq(src.content.bytes, ReadFrom(src) + 1, Len(src.content.bytes))

\* The source after file.read(): at its end.
AfterRead(src) == [src EXCEPT !.pos = Len(src.content.bytes)]

\* ----------------------------------------------------------- PDFHandler
Truthy(v) == v.kind = "str" /\ v.val # <<>>

\* A variant that marks page boundaries with a newline.
PdfAppendNewline(t, page_text) == text[t] \o page_text \o <<10>>

\* A variant whose accumulator is one shared by all handlers.
PdfAppendShared(t, page_text) == text[1] \o page_text

\* text += page_text
PdfAppend(t, page_text) == text[t] \o page_text

\* A variant of the except clause that returns what was read so far.
PdfExceptReturnPartial(t) == Str(text[t])

\* return ""
PdfExceptReturn(t) == Str(<<>>)

\* pdf_reader = PdfReader(file); text = ""
PdfOpen(t) ==
    /\ pc[t] = "read_file"
    /\ handler[t] = "PDFHandler"
    /\ IF ~source[t].readable
       THEN /\ exc' = [exc EXCEPT ![t] = "OSError"]
            /\ pc' = [pc EXCEPT ![t] = "except"]
            /\ UNCHANGED <<source, text, page_no>>
       ELSE IF source[t].content.fmt # "pdf"
       THEN /\ exc' = [exc EXCEPT ![t] = "PdfReadError"]
            /\ pc' = [pc EXCEPT ![t] = "except"]
            /\ UNCHANGED <<source, text, page_no>>
       ELSE /\ text' = [text EXCEPT ![t] = <<>>]
            /\ page_no' = [page_no EXCEPT ![t] = 1]
            /\ pc' = [pc EXCEPT ![t] = "pages"]
            /\ UNCHANGED <<source, exc>>
    /\ UNCHANGED <<ftype, start, prev, handler, out, reads, result>>

\* One turn of the loop: page_text = page.extract_text(); if page_text: ...
PdfPage(t) ==
    /\ pc[t] = "pages"
    /\ page_no[t] <= Len(source[t].content.items)
    /\ LET page_text == source[t].content.items[page_no[t]] IN
         IF page_text.kind = "raise"
         THEN /\ exc' = [exc EXCEPT ![t] = "PageError"]
              /\ pc' = [pc EXCEPT ![t] = "except"]
              /\ UNCHANGED <<text, page_no>>
         ELSE /\ text' = [text EXCEPT ![t] =
                            IF Truthy(page_text)
                            THEN PdfAppend(t, page_text.val) ELSE text[t]]
              /\ page_no' = [page_no EXCEPT ![t] = page_no[t] + 1]
              /\ UNCHANGED <<exc, pc>>
    /\ UNCHANGED <<ftype, source, start, prev, handler, out, reads, result>>

\* The loop is over: return text
PdfReturn(t) ==
    /\ pc[t] = "pages"
    /\ page_no[t] > Len(source[t].content.items)
    /\ result' = [result EXCEPT ![t] = Str(text[t])]
    /\ pc' = [pc EXCEPT ![t] = "done"]
    /\ UNCHANGED <<ftype, source, start, prev, handler, text, page_no, exc,
                   out, reads>>

\* ---------------------------------------------------------- DocxHandler
\* A variant of the join that ends every item with the separator.
JoinTrailing(sep, items) ==
    LET F[i \in 0..Len(items)] ==
          IF i = 0 THEN <<>> ELSE F[i - 1] \o items[i] \o sep
    IN F[Len(items)]

\* sep.join(items): the items in order, sep between adjacent ones.
Join(sep, items) ==
    LET F[i \in 0..Len(items)] ==
          IF i = 0 THEN <<>>
          ELSE IF i = 1 THEN items[1]
          ELSE F[i - 1] \o sep \o items[i]
    IN F[Len(items)]

\* doc = Document(file); return " ".join([paragraph.text for ...])
DocxRead(t) ==
    /\ pc[t] = "read_file"
    /\ handler[t] = "DocxHandler"
    /\ IF ~source[t].readable
       THEN /\ exc' = [exc EXCEPT ![t] = "OSError"]
            /\ pc' = [pc EXCEPT ![t] = "except"]
            /\ UNCHANGED <<source, result>>
       ELSE IF source[t].content.fmt # "docx"
       THEN /\ exc' = [exc EXCEPT ![t] = "BadZipFile"]
            /\ pc' = [pc EXCEPT ![t] = "except"]
            /\ UNCHANGED <<source, result>>
       ELSE /\ LET paragraphs == source[t].content.items IN
                 result' = [result EXCEPT ![t] =
                    Str(Join(<<32>>, [i \in 1..Len(paragraphs) |->
                                         paragraphs[i].val]))]
            /\ pc' = [pc EXCEPT ![t] = "done"]
            /\ UNCHANGED <<source, exc>>
    /\ UNCHANGED <<ftype, start, prev, handler, text, page_no, out, reads>>

\* ----------------------------------------------- TxtHandler, CSVFileHandler
\* file.read().decode('utf-8') of both text handlers: one read of the
\* source, then the decoding of what was read.
ReadAndDecode(t) ==
    /\ reads' = [reads EXCEPT ![t] = reads[t] + 1]
    /\ IF ~source[t].readable
       THEN /\ exc' = [exc EXCEPT ![t] = "OSError"]
            /\ pc' = [pc EXCEPT ![t] = "except"]
            /\ UNCHANGED <<source, result>>
       ELSE LET decoded == decode_utf8(ReadAll(source[t])) IN
            /\ source' = [source EXCEPT ![t] = AfterRead(source[t])]
            /\ IF decoded.ok
               THEN /\ result' = [result EXCEPT ![t] = Str(decoded.val)]
                    /\ pc' = [pc EXCEPT ![t] = "done"]
                    /\ UNCHANGED exc
               ELSE /\ exc' = [exc EXCEPT ![t] = "UnicodeDecodeError"]
                    /\ pc' = [pc EXCEPT ![t] = "except"]
                    /\ UNCHANGED result
    /\ UNCHANGED <<ftype, start, prev, handler, text, page_no, out>>

\* return file.read().decode('utf-8')
TxtRead(t) ==
    /\ pc[t] = "read_file"
    /\ handler[t] = "TxtHandler"
    /\ ReadAndDecode(t)

\* csv_data = file.read().decode('utf-8'); return csv_data
CsvRead(t) ==
    /\ pc[t] = "read_file"
    /\ handler[t] = "CSVFileHandler"
    /\ ReadAndDecode(t)

\* ------------------------------------------------------ the except clauses
\* Which exceptions a handler's except clause catches: `except Exception`
\* catches every exception of the model, CSVFileHandler's
\* `except UnicodeDecodeError` only that one.
Catches(h, e) ==
    IF h = "CSVFileHandler" THEN e = "UnicodeDecodeError" ELSE TRUE

\* What a handler's except clause prints.
Printed(h, e) ==
    IF h = "PDFHandler" THEN <<[msg |-> "Error reading file: ", e |-> e]>>
    ELSE IF h = "DocxHandler" THEN <<[msg |-> "Error reading Word file: ", e |-> e]>>
    ELSE IF h = "TxtHandler" THEN <<[msg |-> "Error reading text file: ", e |-> e]>>
    ELSE <<>>

\* A variant of CSVFileHandler's except clause that returns "" as the
\* other handlers do.
CsvExceptReturnEmpty == Str(<<>>)

\* return None
CsvExceptReturn == NoneValue

\* What a handler's except clause returns.
ExceptReturn(t) ==
    IF handler[t] = "PDFHandler" THEN PdfExceptReturn(t)
    ELSE IF handler[t] = "CSVFileHandler" THEN CsvExceptReturn
    ELSE Str(<<>>)

\* An exception was raised inside the try block: the except clause
\* handles it, or it leaves read_file.
Except(t) ==
    /\ pc[t] = "except"
    /\ IF Catches(handler[t], exc[t])
       THEN /\ out' = [out EXCEPT ![t] = out[t] \o Printed(handler[t], exc[t])]
            /\ result' = [result EXCEPT ![t] = ExceptReturn(t)]
       ELSE /\ result' = [result EXCEPT ![t] = Raised]
            /\ UNCHANGED out
    /\ pc' = [pc EXCEPT ![t] = "done"]
    /\ UNCHANGED <<ftype, source, start, prev, handler, text, page_no, exc, reads>>

\* ------------------------------------------------------ specifications
\* One step of a call in progress.
Step(t) ==
    \/ GetFileHandler(t)
    \/ PdfOpen(t)
    \/ PdfPage(t)
    \/ PdfReturn(t)
    \/ DocxRead(t)
    \/ TxtRead(t)
    \/ CsvRead(t)
    \/ Except(t)

\* One caller, all inputs within the bounds.
Next ==
    \/ Call(1, FileTypes, Contents)
    \/ Recall(1, FileTypes)
    \/ Release(1)
    \/ Step(1)

Spec == Init /\ [][Next]_vars

\* Concurrent callers, each on its own byte source: the contents they use.
ConcTypes == KnownTypes
ConcContents ==
    { EmptyContent,
      [fmt |-> "raw", bytes |-> <<195, 169>>, items |-> <<>>],
      [fmt |-> "raw", bytes |-> <<192>>, items |-> <<>>],
      [fmt |-> "pdf", bytes |-> <<>>, items |-> <<Str(<<97>>), NoneValue, Str(<<98>>)>>],
      [fmt |-> "pdf", bytes |-> <<>>, items |-> <<Str(<<97>>), Raised>>],
      [fmt |-> "docx", bytes |-> <<>>, items |-> <<Str(<<72>>), Str(<<119, 32>>)>>] }

NextConc ==
    \E t \in Callers :
        \/ Call(t, ConcTypes, ConcContents)
        \/ Release(t)
        \/ Step(t)

SpecConc == Init /\ [][NextConc]_vars

\* ============================================================== properties
Done(t) == pc[t] = "done"
Selected(t) == pc[t] \in {"read_file", "pages", "except", "done"}
Items(t) == source[t].content.items
Bytes(t) == source[t].content.bytes

\* The bytes the call found in its source: from the position at which the
\* call began to the end.
Offered(t) == SubSeq(Bytes(t), start[t] + 1, Len(Bytes(t)))

\* The UTF-8 form of one code point and of a string (str.encode('utf-8')),
\* by which the properties say what decoding must give.
EncodeChar(c) ==
    IF c < 128 THEN <<c>>
    ELSE IF c < 2048 THEN <<192 + (c \div 64), 128 + (c % 64)>>
    ELSE IF c < 65536
      THEN <<224 + (c \div 4096), 128 + ((c \div 64) % 64), 128 + (c % 64)>>
    ELSE <<240 + (c \div 262144), 128 + ((c \div 4096) % 64),
           128 + ((c \div 64) % 64), 128 + (c % 64)>>

RECURSIVE encode_utf8(_)
encode_utf8(s) ==
    IF s = <<>> THEN <<>> ELSE EncodeChar(Head(s)) \o encode_utf8(Tail(s))

\* The code points whose UTF-8 form is made of the modelled byte values
\* only (the largest lead byte, 0xE2, keeps them below U+3000).
Chars == {c \in 0..12287 :
            \A i \in DOMAIN EncodeChar(c) : EncodeChar(c)[i] \in ByteValues}

\* The strings whose UTF-8 form is b.
RECURSIVE Decodings(_)
Decodings(b) ==
    IF b = <<>> THEN {<<>>}
    ELSE UNION { LET e == EncodeChar(c) IN
                   IF Len(e) <= Len(b) /\ SubSeq(b, 1, Len(e)) = e
                   THEN {<<c>> \o r : r \in Decodings(SubSeq(b, Len(e) + 1, Len(b)))}
                   ELSE {}
                 : c \in Chars }

\* b is valid UTF-8: it is the encoded forms of some characters, one
\* after the other.
RECURSIVE IsUtf8(_)
IsUtf8(b) ==
    \/ b = <<>>
    \/ \E c \in Chars :
          LET e == EncodeChar(c) IN
            /\ Len(e) <= Len(b)
            /\ SubSeq(b, 1, Len(e)) = e
            /\ IsUtf8(SubSeq(b, Len(e) + 1, Len(b)))

\* The texts of the pages that have one, in page order, nothing between.
RECURSIVE PagesText(_)
PagesText(pages) ==
    IF pages = <<>> THEN <<>>
    ELSE (IF Head(pages).kind = "str" THEN Head(pages).val ELSE <<>>)
         \o PagesText(Tail(pages))

WellFormedPdf(t) ==
    /\ source[t].readable
    /\ source[t].content.fmt = "pdf"
    /\ \A i \in DOMAIN Items(t) : Items(t)[i].kind # "raise"

\* C1: get_file_handler maps each of the four content-type strings to its
\* own handler class and every other string, compared exactly and with
\* case, to a ValueError and no handler.
C1_SelectTotalOneToOne ==
    \A t \in Callers : Selected(t) =>
        /\ (ftype[t] = PDF_TYPE) <=> (handler[t] = "PDFHandler")
        /\ (ftype[t] = DOCX_TYPE) <=> (handler[t] = "DocxHandler")
        /\ (ftype[t] = TXT_TYPE) <=> (handler[t] = "TxtHandler")
        /\ (ftype[t] = CSV_TYPE) <=> (handler[t] = "CSVFileHandler")
        /\ (ftype[t] \notin KnownTypes) <=> (handler[t] = "none")
        /\ handler[t] = "none" =>
              /\ Done(t)
              /\ result[t] = Raised
              /\ exc[t] = "ValueError"

\* A content type that differs from the PDF type in case only was refused.
C1_Witness ==
    \E t \in Callers :
        /\ Done(t)
        /\ ftype[t] = "Application/PDF"
        /\ handler[t] = "none"
        /\ result[t] = Raised

\* C2: whatever fails inside read_file, every handler returns a value:
\* no exception leaves read_file.
C2_NoExceptionLeavesReadFile ==
    \A t \in Callers :
        (Done(t) /\ handler[t] # "none") => result[t].kind # "raise"

\* C3: for a well-formed PDF, read_file returns the texts of the pages
\* that have one, in page order with nothing between them; a page without
\* text adds nothing and the loop goes on to the pages after it.
C3_PdfConcatenatesPages ==
    \A t \in Callers :
        (handler[t] = "PDFHandler" /\ WellFormedPdf(t)) =>
            /\ pc[t] = "pages" =>
                  text[t] = PagesText(SubSeq(Items(t), 1, page_no[t] - 1))
            /\ Done(t) => result[t] = Str(PagesText(Items(t)))

\* A page without text lies between two pages with text.
C3_Witness ==
    \E t \in Callers :
        /\ Done(t)
        /\ handler[t] = "PDFHandler"
        /\ source[t].readable
        /\ Items(t) = <<Str(<<97>>), NoneValue, Str(<<98>>)>>
        /\ result[t] = Str(<<97, 98>>)

PdfFails(t) ==
    \/ ~source[t].readable
    \/ source[t].content.fmt # "pdf"
    \/ \E i \in DOMAIN Items(t) : Items(t)[i].kind = "raise"

\* C4: when opening the PDF or extracting any of its pages raises,
\* read_file returns "", dropping the text of the pages before, and raises
\* nothing: the value is the text of all pages or "", never a part.
C4_PdfFailureIsWholeDocument ==
    \A t \in Callers :
        (Done(t) /\ handler[t] = "PDFHandler") =>
            /\ result[t].kind = "str"
            /\ PdfFails(t) => result[t] = Str(<<>>)
            /\ result[t].val # <<>> =>
                  (~PdfFails(t) /\ result[t].val = PagesText(Items(t)))

\* The last page raised after two pages had given their text.
C4_Witness ==
    \E t \in Callers :
        /\ Done(t)
        /\ handler[t] = "PDFHandler"
        /\ Items(t) = <<Str(<<97>>), Str(<<98>>), Raised>>
        /\ text[t] = <<97, 98>>
        /\ result[t] = Str(<<>>)

\* Where paragraph i begins in the joined text (0-based): after the
\* paragraphs before it and one separator for each of them.
ParaOffset(ps, i) ==
    LET F[j \in 1..i] == IF j = 1 THEN 0 ELSE F[j - 1] + Len(ps[j - 1].val) + 1
    IN F[i]

\* C5: for a Word document, read_file returns the paragraph texts in
\* order with exactly one space between adjacent ones, none before the
\* first or after the last, empty paragraphs kept, no paragraph giving
\* ""; on any exception it returns "".
C5_DocxJoinsWithOneSpace ==
    \A t \in Callers :
        (Done(t) /\ handler[t] = "DocxHandler") =>
            IF source[t].readable /\ source[t].content.fmt = "docx"
            THEN LET ps == Items(t)
                     n == Len(ps)
                     r == result[t].val
                 IN /\ result[t].kind = "str"
                    /\ Len(r) = IF n = 0 THEN 0
                                ELSE ParaOffset(ps, n) + Len(ps[n].val)
                    /\ \A i \in 1..n :
                          SubSeq(r, ParaOffset(ps, i) + 1,
                                 ParaOffset(ps, i) + Len(ps[i].val)) = ps[i].val
                    /\ \A i \in 1..(n - 1) :
                          r[ParaOffset(ps, i + 1)] = 32
            ELSE result[t] = Str(<<>>)

\* An empty paragraph between two others gave two adjacent spaces.
C5_Witness ==
    \E t \in Callers :
        /\ Done(t)
        /\ handler[t] = "DocxHandler"
        /\ source[t].readable
        /\ Items(t) = <<Str(<<72>>), Str(<<>>), Str(<<119, 32>>)>>
        /\ result[t] = Str(<<72, 32, 32, 119, 32>>)

\* C6: TxtHandler.read_file returns the text whose UTF-8 form is exactly
\* the bytes it read when these are valid UTF-8 (so the encoded form of a
\* string gives back that string), and "" when they are not.
C6_TxtRoundTrip ==
    \A t \in Callers :
        (Done(t) /\ handler[t] = "TxtHandler" /\ source[t].readable) =>
            IF Decodings(Offered(t)) # {}
            THEN /\ result[t].kind = "str"
                 /\ encode_utf8(result[t].val) = Offered(t)
                 /\ \A s \in Decodings(Offered(t)) : result[t] = Str(s)
            ELSE result[t] = Str(<<>>)

\* A two-byte and a one-byte character were decoded from a fresh source.
C6_Witness ==
    \E t \in Callers :
        /\ Done(t)
        /\ handler[t] = "TxtHandler"
        /\ start[t] = 0
        /\ Bytes(t) = <<195, 169, 65>>
        /\ result[t] = Str(<<233, 65>>)

\* C7: CSVFileHandler.read_file returns the decoded bytes as they are
\* when they are valid UTF-8 and None when they are not; and a call of any
\* handler returns None exactly when it is the CSV handler failing to
\* decode.
C7_CsvAbsentOnlyOnDecodeFailure ==
    \A t \in Callers : Done(t) =>
        /\ (result[t].kind = "None") <=>
              /\ handler[t] = "CSVFileHandler"
              /\ source[t].readable
              /\ ~IsUtf8(Offered(t))
        /\ (handler[t] = "CSVFileHandler" /\ source[t].readable
                /\ IsUtf8(Offered(t))) =>
              /\ result[t].kind = "str"
              /\ encode_utf8(result[t].val) = Offered(t)

\* A CSV source whose bytes end in the middle of a character gave None.
C7_Witness ==
    \E t \in Callers :
        /\ Done(t)
        /\ handler[t] = "CSVFileHandler"
        /\ Bytes(t) = <<65, 226, 130>>
        /\ start[t] = 0
        /\ result[t] = NoneValue

\* C8: two calls of the same handler on sources with the same content
\* give the same value, whatever calls came before and however the steps
\* of concurrent calls interleave.
C8_ResultDependsOnContentOnly ==
    \A t1, t2 \in Callers :
        ( /\ Done(t1)
          /\ Done(t2)
          /\ ftype[t1] = ftype[t2]
          /\ source[t1].content = source[t2].content
          /\ source[t1].readable = source[t2].readable
          /\ start[t1] = start[t2] ) =>
            result[t1] = result[t2]

\* Two callers have read the same three-page PDF, each from its own source.
C8_Witness ==
    \E t1, t2 \in Callers :
        /\ t1 # t2
        /\ Done(t1)
        /\ Done(t2)
        /\ handler[t1] = "PDFHandler"
        /\ handler[t2] = "PDFHandler"
        /\ Items(t1) = <<Str(<<97>>), NoneValue, Str(<<98>>)>>
        /\ Items(t2) = Items(t1)
        /\ result[t1] = Str(<<97, 98>>)
        /\ result[t2] = result[t1]

\* C9: whenever a handler's except clause turns a failure into the empty
\* or absent value, it has printed a log line before the call returns.
C9_AbsorbedFailureIsLogged ==
    \A t \in Callers :
        (Done(t) /\ handler[t] # "none" /\ exc[t] # "none"
            /\ result[t].kind # "raise") =>
                /\ Len(out[t]) > 0
                /\ out[t][Len(out[t])].e = exc[t]

\* C10: get_file_handler leaves the byte source alone; a text or CSV call
\* reads once, from the position it found to the end, and leaves the
\* source at its end; so a text or CSV call on a source that such a call
\* has already read returns "", not the text and not an error.
C10_SinglePass ==
    \A t \in Callers :
        /\ pc[t] \in {"select", "read_file"} =>
              (source[t].pos = start[t] /\ reads[t] = 0)
        /\ (Done(t) /\ handler[t] \in {"TxtHandler", "CSVFileHandler"}) =>
              /\ reads[t] = 1
              /\ source[t].readable =>
                    /\ source[t].pos = Len(Bytes(t))
                    /\ prev[t] \in {"TxtHandler", "CSVFileHandler"} =>
                          result[t] = Str(<<>>)

\* A source that held text was read a second time and gave "".
C10_Witness ==
    \E t \in Callers :
        /\ Done(t)
        /\ prev[t] = "TxtHandler"
        /\ handler[t] = "TxtHandler"
        /\ Bytes(t) = <<65, 195, 169>>
        /\ start[t] = 3
        /\ result[t] = Str(<<>>)

==========================================================================
